---- MODULE Spec2Model ----
(***************************************************************************)
(* A model of app.py: the download of a CKAN datastore response, its       *)
(* cleaning into a pandas DataFrame (records_to_df), the console report,   *)
(* the charts and the Streamlit view.                                      *)
(*                                                                         *)
(* A Python str is a sequence of characters, each character a TLA+ string  *)
(* of its own (<<"0", ",", "5">> is "0,5"); the no-break space U+00A0 is   *)
(* the character NBSP.  A display string that the program only compares    *)
(* as a whole is a sequence of pieces (<<"(todas)">>).                     *)
(***************************************************************************)
EXTENDS Integers, Sequences, FiniteSets, TLC

VARIABLES pc, data, df, stdout, report, charts, ui, err, x, ret

vars == <<pc, data, df, stdout, report, charts, ui, err, x, ret>>

(***************************************************************************)
(* Characters and the str methods the program uses.                        *)
(***************************************************************************)
NBSP == "nbsp"

UpperLetters == <<"A","B","C","D","E","F","G","H","I","J","K","L","M",
                  "N","O","P","Q","R","S","T","U","V","W","X","Y","Z">>

LowerLetters == <<"a","b","c","d","e","f","g","h","i","j","k","l","m",
                  "n","o","p","q","r","s","t","u","v","w","x","y","z">>

Digits == <<"0","1","2","3","4","5","6","7","8","9">>

Range(s) == {s[i] : i \in DOMAIN s}

IndexOf(s, c) == CHOOSE i \in DOMAIN s : s[i] = c

\* str.isspace() of one character: str.strip() with no argument removes these.
IsSpace(c) == c \in {" ", "\t", "\n", NBSP}

\* str.lower() of one character ("E'" stands for the accented capital, "e'" for its lower case).
LowerChar(c) ==
    IF c \in Range(UpperLetters) THEN LowerLetters[IndexOf(UpperLetters, c)]
    ELSE IF c = "E'" THEN "e'"
    ELSE c

\* str.lower()
Lower(s) == [i \in DOMAIN s |-> LowerChar(s[i])]

RECURSIVE LStrip(_)
LStrip(s) == IF s # <<>> /\ IsSpace(Head(s)) THEN LStrip(Tail(s)) ELSE s

RECURSIVE RStrip(_)
RStrip(s) ==
    IF s # <<>> /\ IsSpace(s[Len(s)]) THEN RStrip(SubSeq(s, 1, Len(s) - 1)) ELSE s

\* str.strip()
Strip(s) == RStrip(LStrip(s))

\* str.replace(old, new) for a one-character old and a string new
RECURSIVE Replace(_, _, _)
Replace(s, old, new) ==
    IF s = <<>> THEN <<>>
    ELSE (IF Head(s) = old THEN new ELSE <<Head(s)>>) \o Replace(Tail(s), old, new)

\* sub in s, for two str
Contains(s, sub) ==
    \E i \in 1..(Len(s) - Len(sub) + 1) : SubSeq(s, i, i + Len(sub) - 1) = sub

\* str(n) of an int
RECURSIVE NatToStr(_)
NatToStr(n) == IF n < 10 THEN <<Digits[n + 1]>> ELSE NatToStr(n \div 10) \o <<Digits[(n % 10) + 1]>>

IntToStr(n) == IF n < 0 THEN <<"-">> \o NatToStr(-n) ELSE NatToStr(n)

(***************************************************************************)
(* Cell values.  NA is pd.NA, PyNone a None kept in an object column, NaN  *)
(* the float nan; a float is m / 10^e, kept normalised, or an infinity.    *)
(***************************************************************************)
NA == [k |-> "NA"]

PyNone == [k |-> "None"]

NaN == [k |-> "nan"]

Str(s) == [k |-> "str", s |-> s]

RECURSIVE Norm(_, _)
Norm(m, e) == IF e > 0 /\ m % 10 = 0 THEN Norm(m \div 10, e - 1) ELSE [k |-> "num", m |-> m, e |-> e]

Num(n) == [k |-> "num", m |-> n, e |-> 0]

RECURSIVE Pow10(_)
Pow10(n) == IF n = 0 THEN 1 ELSE 10 * Pow10(n - 1)

Inf(sign) == [k |-> "inf", sign |-> sign]

\* pd.isna(v) of a scalar
IsNA(v) == v.k \in {"NA", "None", "nan"}

(***************************************************************************)
(* float(s) of a str over the characters that occur in the cells drawn     *)
(* here (digits, ".", ",", "-", "+", white space and letters; exponents    *)
(* and digit-group underscores do not occur).                              *)
(***************************************************************************)
ValueError == [k |-> "ValueError"]

IsDigits(s) == \A i \in DOMAIN s : s[i] \in Range(Digits)

RECURSIVE DigitsToNat(_)
DigitsToNat(s) ==
    IF s = <<>> THEN 0 ELSE 10 * DigitsToNat(SubSeq(s, 1, Len(s) - 1)) + (IndexOf(Digits, s[Len(s)]) - 1)

SpecialFloats == {<<"i","n","f">>, <<"i","n","f","i","n","i","t","y">>}

PyFloatUnsigned(s, sign) ==
    IF Lower(s) \in SpecialFloats THEN Inf(sign)
    ELSE IF Lower(s) = <<"n","a","n">> THEN NaN
    ELSE IF s # <<>> /\ IsDigits(s) THEN Norm(sign * DigitsToNat(s), 0)
    ELSE IF \E i \in DOMAIN s : s[i] = "."
         THEN LET i == CHOOSE j \in DOMAIN s : s[j] = "."
                  ip == SubSeq(s, 1, i - 1)
                  fp == SubSeq(s, i + 1, Len(s))
              IN  IF IsDigits(ip) /\ IsDigits(fp) /\ Len(ip) + Len(fp) > 0
                  THEN Norm(sign * DigitsToNat(ip \o fp), Len(fp))
                  ELSE ValueError
    ELSE ValueError

PyFloat(s) ==
    LET t == Strip(s)
    IN  IF t # <<>> /\ Head(t) = "-" THEN PyFloatUnsigned(Tail(t), -1)
        ELSE IF t # <<>> /\ Head(t) = "+" THEN PyFloatUnsigned(Tail(t), 1)
        ELSE PyFloatUnsigned(t, 1)

\* str(x) of a cell value
PyStr(v) ==
    CASE v.k = "str" -> v.s
      [] v.k = "num" /\ v.e = 0 -> IntToStr(v.m)
      [] v.k = "None" -> <<"N","o","n","e">>
      [] v.k = "nan" -> <<"n","a","n">>
      [] v.k = "NA" -> <<"<","N","A",">">>

MissingTexts ==
    {<<>>, <<"-">>, <<"n","a","n">>, <<"n","o","n","e">>, <<"n","u","l","l">>}

to_float_cl(v) ==
    IF IsNA(v) THEN NA
    ELSE LET s == Strip(PyStr(v))
         IN  IF s \in MissingTexts THEN NA
             ELSE LET t == Replace(Replace(s, ".", <<>>), ",", <<".">>)
                      f == PyFloat(t)
                  IN  IF f.k = "ValueError" THEN NA ELSE f

(***************************************************************************)
(* The reading of a Chilean-format number that the description gives:      *)
(* drop every ".", turn "," into ".", and read a decimal numeral (an       *)
(* optional sign, digits, at most one "." among them, at least one digit;  *)
(* white space around it ignored).                                         *)
(***************************************************************************)
ChileanText(v) == Replace(Replace(Strip(PyStr(v)), ".", <<>>), ",", <<".">>)

Unsigned(t) == IF t # <<>> /\ Head(t) \in {"-", "+"} THEN Tail(t) ELSE t

IsDecimalNumeral(s) ==
    LET u == Unsigned(Strip(s))
    IN  /\ \A i \in DOMAIN u : u[i] \in Range(Digits) \cup {"."}
        /\ Cardinality({i \in DOMAIN u : u[i] = "."}) <= 1
        /\ \E i \in DOMAIN u : u[i] \in Range(Digits)

\* The value m / 10^e of a decimal numeral, as the pair <<m, e>>.
DecimalValue(s) ==
    LET t == Strip(s)
        u == Unsigned(t)
        sign == IF t # <<>> /\ Head(t) = "-" THEN -1 ELSE 1
        dot == {i \in DOMAIN u : u[i] = "."}
        e == IF dot = {} THEN 0 ELSE Len(u) - (CHOOSE i \in dot : TRUE)
        d == SelectSeq(u, LAMBDA c : c # ".")
        m == DigitsToNat(d)
    IN  <<sign * m, e>>

SameNumber(v, me) == v.k = "num" /\ v.m * Pow10(me[2]) = me[1] * Pow10(v.e)

(***************************************************************************)
(* JSON values (what r.json() returns) and pandas DataFrames.  A dict      *)
(* keeps its keys in order; the keys of the response envelope are whole    *)
(* pieces (<<"result">>), the field names of a record are character        *)
(* sequences, which normalize_cols rewrites.                               *)
(***************************************************************************)
JNull == [k |-> "null"]

JStr(s) == [k |-> "str", s |-> s]

JNum(n) == [k |-> "num", n |-> n]

JList(items) == [k |-> "list", items |-> items]

JDict(keys, vals) == [k |-> "dict", keys |-> keys, vals |-> vals]

HasKey(d, key) == key \in Range(d.keys)

Get(d, key) == d.vals[IndexOf(d.keys, key)]

\* A DataFrame: column labels, one dtype per column, rows of cells.
Frame(columns, dtypes, rows) == [columns |-> columns, dtypes |-> dtypes, rows |-> rows]

\* pd.DataFrame()
EmptyFrame == Frame(<<>>, <<>>, <<>>)

\* df.empty
IsEmpty(f) == Len(f.columns) = 0 \/ Len(f.rows) = 0

Returned(f) == [exc |-> "none", df |-> f]

Raised(e) == [exc |-> e, df |-> EmptyFrame]

\* "c in df.columns" and df[c] for a str label c
HasCol(f, name) == Str(name) \in Range(f.columns)

ColIndex(f, name) == IndexOf(f.columns, Str(name))

Column(f, name) == [i \in DOMAIN f.rows |-> f.rows[i][ColIndex(f, name)]]

\* The keys of a list of dicts, in order of first appearance.
RECURSIVE KeysOf(_)
KeysOf(items) ==
    IF items = <<>> THEN <<>>
    ELSE LET before == KeysOf(SubSeq(items, 1, Len(items) - 1))
             last == items[Len(items)].keys
         IN  before \o SelectSeq(last, LAMBDA key : key \notin Range(before))

RawKind(item, key) ==
    IF item.k # "dict" THEN item.k
    ELSE IF HasKey(item, key) THEN Get(item, key).k ELSE "absent"

RawValue(item, key) == IF item.k # "dict" THEN item ELSE Get(item, key)

\* The dtype pandas infers for a column of str, int, None and absent values.
InferDtype(kinds) ==
    IF kinds \subseteq {"num"} THEN "int64"
    ELSE IF kinds \subseteq {"num", "null", "absent"} /\ "num" \in kinds THEN "float64"
    ELSE "object"

CellOf(item, key, dtype) ==
    LET kind == RawKind(item, key)
    IN  CASE kind = "num" -> Num(RawValue(item, key).n)
          [] kind = "str" -> Str(RawValue(item, key).s)
          [] kind = "null" -> IF dtype = "object" THEN PyNone ELSE NaN
          [] kind = "absent" -> NaN

\* pd.DataFrame(records)
DataFrame(records) ==
    CASE records.k = "null" -> Returned(EmptyFrame)
      [] records.k \in {"str", "num"} -> Raised("ValueError")
      [] records.k = "dict" ->
            IF records.keys = <<>> THEN Returned(EmptyFrame) ELSE Raised("ValueError")
      [] records.k = "list" ->
            LET items == records.items
            IN  IF items = <<>> THEN Returned(EmptyFrame)
                ELSE IF \A i \in DOMAIN items : items[i].k = "dict"
                THEN LET keys == KeysOf(items)
                         dtypes == [j \in DOMAIN keys |->
                                      InferDtype({RawKind(items[i], keys[j]) : i \in DOMAIN items})]
                     IN  Returned(Frame([j \in DOMAIN keys |-> Str(keys[j])], dtypes,
                                        [i \in DOMAIN items |->
                                           [j \in DOMAIN keys |-> CellOf(items[i], keys[j], dtypes[j])]]))
                ELSE \* a list of scalars: one column, labelled with the int 0
                     LET dtype == InferDtype({items[i].k : i \in DOMAIN items})
                     IN  Returned(Frame(<<Num(0)>>, <<dtype>>,
                                        [i \in DOMAIN items |-> <<CellOf(items[i], <<>>, dtype)>>]))

(***************************************************************************)
(* records_to_df.                                                          *)
(***************************************************************************)
IsNameChar(c) == c \in Range(LowerLetters) \cup Range(Digits) \cup {"_"}

\* normalize_cols, for one label
NormalizeName(c) == SelectSeq(Replace(Lower(c), " ", <<"_">>), IsNameChar)

normalize_cols(cols) == [j \in DOMAIN cols |-> Str(NormalizeName(cols[j].s))]

BlankTexts == {<<>>, <<"n","o","n","e">>, <<"n","u","l","l">>, <<"n","a","n">>}

\* lines 60-62, for one cell of a text column
CleanText(v) ==
    LET s == Strip(PyStr(v))
    IN  IF Lower(s) \in BlankTexts THEN NA ELSE Str(s)

\* astype("string") of one cell of a column of the given dtype
AsString(v, dtype) ==
    IF IsNA(v) THEN NA
    ELSE IF dtype = "float64" THEN Str(IntToStr(v.m) \o <<".", "0">>)
    ELSE Str(PyStr(v))

\* line 67, for one cell
CleanKey(v, dtype) ==
    LET t == AsString(v, dtype)
    IN  IF t.k = "NA" THEN NA ELSE Str(Strip(Replace(t.s, NBSP, <<>>)))

COMUNA == <<"c","o","m","u","n","a">>

REGION == <<"r","e","g","i","o","n">>

MTOHOMBRE == <<"m","t","o","h","o","m","b","r","e">>

MTOMUJER == <<"m","t","o","m","u","j","e","r">>

MONTO_M == <<"m","o","n","t","o","_","m">>

NumericTokens ==
    { <<"m","t","o">>, <<"m","o","n","t","o">>, <<"h","o","m","b","r","e">>,
      <<"m","u","j","e","r">>, <<"n","o">>, <<"c","a","n","t","i","d","a","d">> }

IsCandidate(name) == \E tok \in NumericTokens : Contains(name, tok)

IsTextDtype(dtype) == dtype \in {"object", "string"}

\* Apply op to every cell of the columns that test selects; such a column gets dtype.
MapColumns(f, test(_), op(_, _), dtype) ==
    Frame(f.columns,
          [j \in DOMAIN f.columns |-> IF test(j) THEN dtype ELSE f.dtypes[j]],
          [i \in DOMAIN f.rows |->
             [j \in DOMAIN f.columns |->
                IF test(j) THEN op(f.rows[i][j], f.dtypes[j]) ELSE f.rows[i][j]]])

\* fillna(0) of one cell
FillZero(v) == IF IsNA(v) THEN Num(0) ELSE v

\* a + b of two floats
Add(a, b) ==
    LET e == IF a.e > b.e THEN a.e ELSE b.e
    IN  Norm(a.m * Pow10(e - a.e) + b.m * Pow10(e - b.e), e)

\* DeriveTotal without the test for an existing monto_m: the sum replaces the column.
DeriveTotalAlways(f) ==
    IF HasCol(f, MTOHOMBRE) /\ HasCol(f, MTOMUJER)
    THEN LET g == IF HasCol(f, MONTO_M) THEN f
                  ELSE Frame(Append(f.columns, Str(MONTO_M)), Append(f.dtypes, "float64"),
                             [i \in DOMAIN f.rows |-> Append(f.rows[i], NA)])
         IN  Frame(g.columns, g.dtypes,
                   [i \in DOMAIN g.rows |->
                      [g.rows[i] EXCEPT ![ColIndex(g, MONTO_M)] =
                         Add(FillZero(Column(f, MTOHOMBRE)[i]), FillZero(Column(f, MTOMUJER)[i]))]])
    ELSE f

\* lines 76-77
DeriveTotal(f) ==
    IF ~HasCol(f, MONTO_M) /\ HasCol(f, MTOHOMBRE) /\ HasCol(f, MTOMUJER)
    THEN Frame(Append(f.columns, Str(MONTO_M)), Append(f.dtypes, "float64"),
               [i \in DOMAIN f.rows |->
                  Append(f.rows[i], Add(FillZero(Column(f, MTOHOMBRE)[i]),
                                        FillZero(Column(f, MTOMUJER)[i])))])
    ELSE f

HasDuplicates(cols) == \E i, j \in DOMAIN cols : i < j /\ cols[i] = cols[j]

\* lines 54-79: the cleaning of a frame that is not empty
CleanFrame(f0) ==
    IF \E j \in DOMAIN f0.columns : f0.columns[j].k # "str"
    THEN Raised("AttributeError")     \* c.lower() of an int label
    ELSE LET f1 == Frame(normalize_cols(f0.columns), f0.dtypes, f0.rows)
         IN  IF HasDuplicates(f1.columns)
             THEN Raised("AttributeError")   \* df[c] is a DataFrame: it has no dtype
             ELSE LET f2 == MapColumns(f1, LAMBDA j : IsTextDtype(f1.dtypes[j]),
                                       LAMBDA v, d : CleanText(v), "object")
                      f3 == MapColumns(f2, LAMBDA j : f2.columns[j].s \in {COMUNA, REGION},
                                       CleanKey, "string")
                      f4 == MapColumns(f3, LAMBDA j : IsCandidate(f3.columns[j].s)
                                                        /\ IsTextDtype(f3.dtypes[j]),
                                       LAMBDA v, d : to_float_cl(v), "object")
                  IN  Returned(DeriveTotal(f4))

RESULT == <<"result">>

RECORDS == <<"records">>

records_to_df(d) ==
    IF d.k # "dict" \/ ~HasKey(d, RESULT) THEN Returned(EmptyFrame)
    ELSE LET result == Get(d, RESULT)
         IN  IF result.k # "dict" THEN Raised("AttributeError")   \* no .get
             ELSE LET made == DataFrame(IF HasKey(result, RECORDS) THEN Get(result, RECORDS)
                                        ELSE JList(<<>>))
                  IN  IF made.exc # "none" THEN made
                      ELSE IF IsEmpty(made.df) THEN made
                      ELSE CleanFrame(made.df)

(***************************************************************************)
(* Sums, the by-commune ranking and the formatting of the totals.          *)
(***************************************************************************)
\* Series.sum(): missing cells are skipped
RECURSIVE SumCells(_)
SumCells(cells) ==
    IF cells = <<>> THEN Num(0)
    ELSE LET rest == SumCells(Tail(cells))
         IN  IF IsNA(Head(cells)) THEN rest ELSE Add(Head(cells), rest)

\* float(df[name].sum()) if name in df.columns else 0.0
SumOrZero(f, name) == IF HasCol(f, name) THEN SumCells(Column(f, name)) ELSE Num(0)

\* lines 91-93 and 209-211
Totals(f) ==
    LET th == SumOrZero(f, MTOHOMBRE)
        tm == SumOrZero(f, MTOMUJER)
    IN  [th |-> th, tm |-> tm,
         tg |-> IF HasCol(f, MONTO_M) THEN SumCells(Column(f, MONTO_M)) ELSE Add(th, tm)]

\* df[mask]
FilterRows(f, keep(_)) == Frame(f.columns, f.dtypes, SelectSeq(f.rows, keep))

\* df[df["comuna"].notna()]
NotNaComuna(f) == FilterRows(f, LAMBDA row : ~IsNA(row[ColIndex(f, COMUNA)]))

\* The group keys of groupby("comuna"): the values present, missing ones dropped.
GroupKeys(f) == {v.s : v \in {c \in Range(Column(f, COMUNA)) : ~IsNA(c)}}

\* groupby("comuna")[name].sum(), for one key
GroupSum(f, name, key) ==
    SumCells(Column(FilterRows(f, LAMBDA row : row[ColIndex(f, COMUNA)] = Str(key)), name))

Leq(a, b) ==
    LET e == IF a.e > b.e THEN a.e ELSE b.e
    IN  a.m * Pow10(e - a.e) <= b.m * Pow10(e - b.e)

\* sort_values(ascending=False) with the default quicksort: every order of the
\* entries that is descending by total (the order among equal totals is not fixed).
RECURSIVE Descending(_)
Descending(entries) ==
    IF entries = {} THEN {<<>>}
    ELSE LET top == {a \in entries : \A b \in entries : Leq(b.total, a.total)}
         IN  UNION {{<<a>> \o rest : rest \in Descending(entries \ {a})} : a \in top}

\* sort_values(ascending=True)
RECURSIVE Ascending(_)
Ascending(entries) ==
    IF entries = {} THEN {<<>>}
    ELSE LET low == {a \in entries : \A b \in entries : Leq(a.total, b.total)}
         IN  UNION {{<<a>> \o rest : rest \in Ascending(entries \ {a})} : a \in low}

\* .head(n)
HeadN(s, n) == SubSeq(s, 1, IF Len(s) < n THEN Len(s) ELSE n)

\* GroupTotals without the exclusion of missing communes: the rows are grouped
\* by the text of the key, a missing key being one more group.
GroupTotalsKeepMissing(f) ==
    {[key |-> key,
      total |-> SumCells(Column(FilterRows(f, LAMBDA row : PyStr(row[ColIndex(f, COMUNA)]) = key),
                                MONTO_M))] :
        key \in {PyStr(v) : v \in Range(Column(f, COMUNA))}}

\* df_ok[["comuna", "monto_m"]].groupby("comuna")["monto_m"].sum(), as a set of entries
GroupTotals(f) ==
    LET ok == NotNaComuna(f)
    IN  {[key |-> key, total |-> GroupSum(ok, MONTO_M, key)] : key \in GroupKeys(ok)}

\* Rankings with the sort ascending.
RankingsAscending(f, n) == {HeadN(order, n) : order \in Ascending(GroupTotals(f))}

\* ... .sort_values(ascending=False).head(n): the rankings the sort may give
Rankings(f, n) == {HeadN(order, n) : order \in Descending(GroupTotals(f))}

\* lines 131-135: the sums of the three amounts by commune, by descending monto_m
Comparisons(f, n) ==
    LET ok == NotNaComuna(f)
    IN  {HeadN(order, n) : order \in Descending(
           {[key |-> key, total |-> GroupSum(ok, MONTO_M, key),
             mtohombre |-> GroupSum(ok, MTOHOMBRE, key),
             mtomujer |-> GroupSum(ok, MTOMUJER, key)] : key \in GroupKeys(ok)})}

\* round(v) to an integer, halves to even, as format(v, ".0f") rounds
RoundHalfEven(v) ==
    LET a == IF v.m < 0 THEN -v.m ELSE v.m
        q == a \div Pow10(v.e)
        r == a % Pow10(v.e)
    IN  IF 2 * r > Pow10(v.e) \/ (2 * r = Pow10(v.e) /\ q % 2 = 1) THEN q + 1 ELSE q

\* digits in groups of three from the right, sep between the groups
RECURSIVE Grouped(_, _)
Grouped(digits, sep) ==
    IF Len(digits) <= 3 THEN digits
    ELSE Grouped(SubSeq(digits, 1, Len(digits) - 3), sep) \o <<sep>>
           \o SubSeq(digits, Len(digits) - 2, Len(digits))

\* f"{v:,.0f}" with sep for the thousands separator ("," as printed, "." after the replace)
FormatThousands(v, sep) ==
    (IF v.m < 0 THEN <<"-">> ELSE <<>>) \o Grouped(NatToStr(RoundHalfEven(v)), sep)

TopReport == 10

TopBars == 10

TopLines == 20

TopUi == 20

(***************************************************************************)
(* The Streamlit view.                                                     *)
(***************************************************************************)
REGIONES_CHILE ==
    << [code |-> <<"1">>, name |-> <<"Tarapaca">>],
       [code |-> <<"2">>, name |-> <<"Antofagasta">>],
       [code |-> <<"3">>, name |-> <<"Atacama">>],
       [code |-> <<"4">>, name |-> <<"Coquimbo">>],
       [code |-> <<"5">>, name |-> <<"Valparaiso">>],
       [code |-> <<"6">>, name |-> <<"O'Higgins">>],
       [code |-> <<"7">>, name |-> <<"Maule">>],
       [code |-> <<"8">>, name |-> <<"Biobio">>],
       [code |-> <<"9">>, name |-> <<"La Araucania">>],
       [code |-> <<"1","0">>, name |-> <<"Los Lagos">>],
       [code |-> <<"1","1">>, name |-> <<"Aysen">>],
       [code |-> <<"1","2">>, name |-> <<"Magallanes">>],
       [code |-> <<"1","3">>, name |-> <<"Metropolitana de Santiago">>],
       [code |-> <<"1","4">>, name |-> <<"Los Rios">>],
       [code |-> <<"1","5">>, name |-> <<"Arica y Parinacota">>],
       [code |-> <<"1","6">>, name |-> <<"Nuble">>] >>

\* REGIONES_CHILE.get(c, f"Región {c}")
RegionName(c) ==
    IF \E i \in DOMAIN REGIONES_CHILE : REGIONES_CHILE[i].code = c
    THEN REGIONES_CHILE[CHOOSE i \in DOMAIN REGIONES_CHILE : REGIONES_CHILE[i].code = c].name
    ELSE <<"Region ">> \o c

\* str(next((c for c, n in REGIONES_CHILE.items() if n == pick), None))
CodeOfName(pick) ==
    LET hits == {i \in DOMAIN REGIONES_CHILE : REGIONES_CHILE[i].name = pick}
    IN  IF hits = {} THEN <<"N","o","n","e">>
        ELSE REGIONES_CHILE[CHOOSE i \in hits : \A j \in hits : i <= j].code

\* The characters of the model in code point order.
CodePoints ==
    <<"\t", "\n", " ", "+", ",", "-", ".">> \o Digits \o <<"<", ">">> \o UpperLetters
      \o <<"_">> \o LowerLetters \o <<NBSP, "E'", "e'">>

RECURSIVE StrLeq(_, _)
StrLeq(a, b) ==
    IF a = <<>> THEN TRUE
    ELSE IF b = <<>> THEN FALSE
    ELSE IF Head(a) = Head(b) THEN StrLeq(Tail(a), Tail(b))
    ELSE IndexOf(CodePoints, Head(a)) < IndexOf(CodePoints, Head(b))

\* sorted(strs)
RECURSIVE Sorted(_)
Sorted(strs) ==
    IF strs = {} THEN <<>>
    ELSE LET least == CHOOSE a \in strs : \A b \in strs : StrLeq(a, b)
         IN  <<least>> \o Sorted(strs \ {least})

\* lines 185-188
RegionCodes(f) ==
    Sorted({c \in {Strip(PyStr(v)) : v \in {w \in Range(Column(f, REGION)) : ~IsNA(w)}} :
              Lower(c) # <<"n","o","n","e">>})

TODAS == <<"(todas)">>

\* lines 189-190
Opciones(f) ==
    LET codes == RegionCodes(f)
    IN  <<TODAS>> \o [i \in DOMAIN codes |-> RegionName(codes[i])]

\* lines 195-200
Work(f, pick) ==
    IF pick = TODAS THEN f
    ELSE FilterRows(f, LAMBDA row : Strip(PyStr(row[ColIndex(f, REGION)])) = CodeOfName(pick))

\* The local variable pick before any assignment to it.
Unbound == <<"<unbound>">>

\* What st.selectbox may return: any of its options.
Picks(f) == IF HasCol(f, REGION) THEN Range(Opciones(f)) ELSE {Unbound}

HasRanking(f) == HasCol(f, COMUNA) /\ HasCol(f, MONTO_M)

NoUi ==
    [widgets |-> <<>>, opciones |-> <<>>, pick |-> Unbound, work |-> EmptyFrame,
     metrics |-> <<>>, top20 |-> <<>>, titulo |-> <<>>, chart |-> <<>>]

\* lines 173-234 with streamlit imported, the selectbox returning pick and the two
\* sorts giving top20 and chart; the result is the exception raised and what was shown.
run_streamlit_ui(f, pick, top20, chart) ==
    LET head == <<"title", "caption">>
    IN  IF IsEmpty(f)
        THEN [exc |-> "none", ui |-> [NoUi EXCEPT !.widgets = head \o <<"warning">>]]
        ELSE
        LET work == IF HasCol(f, REGION) THEN Work(f, pick) ELSE f
            t == Totals(work)
            shown == [NoUi EXCEPT
                        !.widgets = head \o (IF HasCol(f, REGION) THEN <<"selectbox">> ELSE <<"info">>)
                                      \o <<"subheader", "dataframe", "metric", "metric", "metric">>,
                        !.opciones = IF HasCol(f, REGION) THEN Opciones(f) ELSE <<>>,
                        !.pick = pick,
                        !.work = work,
                        !.metrics = <<FormatThousands(t.th, "."), FormatThousands(t.tm, "."),
                                      FormatThousands(t.tg, ".")>>]
        IN  IF ~HasRanking(work) THEN [exc |-> "none", ui |-> shown]
            ELSE IF pick = Unbound
            THEN [exc |-> "UnboundLocalError", ui |-> [shown EXCEPT !.top20 = top20]]
            ELSE [exc |-> "none",
                  ui |-> [shown EXCEPT
                            !.widgets = @ \o <<"subheader", "bar_chart">>,
                            !.top20 = top20,
                            !.titulo = IF pick = TODAS
                                       THEN <<"Top 20 comunas por monto total (todas las regiones)">>
                                       ELSE <<"Top 20 comunas por monto total - ">> \o pick,
                            !.chart = chart]]

(***************************************************************************)
(* The batch run (lines 238-250), one action per stage.                    *)
(***************************************************************************)
NoReport == [totals |-> [th |-> Num(0), tm |-> Num(0), tg |-> Num(0)], ranked |-> FALSE, top10 |-> <<>>]

NoCharts == [bar |-> <<>>, lines |-> <<>>, files |-> {}]

\* The unhandled exception that ended the run, and the call that raised it.
NoError == [exc |-> "none", at |-> "none"]

Init ==
    /\ pc = "main"
    /\ data = JNull
    /\ df = EmptyFrame
    /\ stdout = <<>>
    /\ report = NoReport
    /\ charts = NoCharts
    /\ ui = NoUi
    /\ err = NoError
    /\ x = NA
    /\ ret = NA

\* bool(data)
Truthy(v) ==
    CASE v.k = "null" -> FALSE
      [] v.k = "num" -> v.n # 0
      [] v.k = "str" -> v.s # <<>>
      [] v.k = "list" -> v.items # <<>>
      [] v.k = "dict" -> v.keys # <<>>

FetchFailures == {"ConnectionError", "Timeout", "HTTPError", "JSONDecodeError"}

\* lines 239-245: fetch_data, with the body of the response drawn from responses
Fetch(responses) ==
    /\ pc = "main"
    /\ \/ \E e \in FetchFailures :
            /\ data' = JDict(<<>>, <<>>)
            /\ stdout' = <<<<"Descargando datos...">>, <<"Error API: ", e>>>>
       \/ \E body \in responses :
            /\ data' = body
            /\ stdout' = <<<<"Descargando datos...">>>>
                           \o (IF Truthy(body) THEN <<<<"Fragmento JSON:">>>> ELSE <<>>)
    /\ pc' = "fetched"
    /\ UNCHANGED <<df, report, charts, ui, err, x, ret>>

\* line 246
Clean ==
    /\ pc = "fetched"
    /\ LET r == records_to_df(data)
       IN  IF r.exc = "none"
           THEN df' = r.df /\ pc' = "cleaned" /\ err' = err
           ELSE df' = df /\ pc' = "crashed" /\ err' = [exc |-> r.exc, at |-> "records_to_df"]
    /\ UNCHANGED <<data, stdout, report, charts, ui, x, ret>>

TotalsLine(t) ==
    <<"Tot Hombres: ">> \o FormatThousands(t.th, ",") \o <<" | Tot Mujeres: ">>
      \o FormatThousands(t.tm, ",") \o <<" | Tot General: ">> \o FormatThousands(t.tg, ",")

\* line 247: console_report(df)
ConsoleReport ==
    /\ pc = "cleaned"
    /\ IF IsEmpty(df)
       THEN /\ stdout' = Append(stdout, <<"DF vacio.">>)
            /\ report' = report
       ELSE \E top10 \in (IF HasRanking(df) THEN Rankings(df, TopReport) ELSE {<<>>}) :
            /\ report' = [totals |-> Totals(df), ranked |-> HasRanking(df), top10 |-> top10]
            /\ stdout' = stdout \o <<<<"Head:">>, <<"Forma:">>, <<"Columnas:">>, TotalsLine(Totals(df))>>
                           \o (IF HasRanking(df) THEN <<<<"Top 10 comunas por monto total:">>>> ELSE <<>>)
    /\ pc' = "reported"
    /\ UNCHANGED <<data, df, charts, ui, err, x, ret>>

HasLines(f) == HasRanking(f) /\ HasCol(f, MTOHOMBRE) /\ HasCol(f, MTOMUJER)

\* line 248: make_charts(df)
MakeCharts ==
    /\ pc = "reported"
    /\ IF IsEmpty(df)
       THEN /\ stdout' = Append(stdout, <<"Sin datos para graficar.">>)
            /\ charts' = charts
       ELSE \E bar \in (IF HasRanking(df) THEN Rankings(df, TopBars) ELSE {<<>>}) :
            \E lines \in (IF HasLines(df) THEN Comparisons(df, TopLines) ELSE {<<>>}) :
            /\ charts' = [bar |-> bar, lines |-> lines,
                          files |-> (IF HasRanking(df) THEN {"grafico_barras.png"} ELSE {})
                                      \cup (IF HasLines(df) THEN {"grafico_lineas.png"} ELSE {})]
            /\ stdout' = stdout
                 \o <<IF HasRanking(df) THEN <<"OK: grafico_barras.png">>
                      ELSE <<"Faltan columnas para barras.">>,
                      IF HasLines(df) THEN <<"OK: grafico_lineas.png">>
                      ELSE <<"Faltan columnas para lineas.">> >>
    /\ pc' = "charted"
    /\ UNCHANGED <<data, df, report, ui, err, x, ret>>

\* line 249: run_streamlit_ui(df); streamlit may be missing, and then it returns at once
RunStreamlitUi ==
    /\ pc = "charted"
    /\ \E available \in BOOLEAN :
         IF ~available
         THEN ui' = ui /\ pc' = "rendered" /\ err' = err
         ELSE \E pick \in (IF IsEmpty(df) THEN {Unbound} ELSE Picks(df)) :
              LET work == IF IsEmpty(df) \/ ~HasCol(df, REGION) THEN df ELSE Work(df, pick)
              IN  \E top20 \in (IF HasRanking(work) THEN Rankings(work, TopUi) ELSE {<<>>}) :
                  \E chart \in Ascending(Range(top20)) :
                  LET r == run_streamlit_ui(df, pick, top20, chart)
                  IN  /\ ui' = r.ui
                      /\ IF r.exc = "none"
                         THEN pc' = "rendered" /\ err' = err
                         ELSE pc' = "crashed" /\ err' = [exc |-> r.exc, at |-> "run_streamlit_ui"]
    /\ UNCHANGED <<data, df, stdout, report, charts, x, ret>>

\* line 250
Exit ==
    /\ pc = "rendered"
    /\ stdout' = Append(stdout, <<"Para UI: streamlit run app.py">>)
    /\ pc' = "exit"
    /\ UNCHANGED <<data, df, report, charts, ui, err, x, ret>>

\* Every str of at most n characters drawn from chars.
RECURSIVE StringsUpTo(_, _)
StringsUpTo(chars, n) ==
    IF n = 0 THEN {<<>>}
    ELSE LET shorter == StringsUpTo(chars, n - 1)
         IN  shorter \cup {<<c>> \o s : c \in chars, s \in {t \in shorter : Len(t) = n - 1}}

\* {"result": {"records": records}}
Envelope(records) == JDict(<<RESULT>>, <<JDict(<<RECORDS>>, <<records>>)>>)

(***************************************************************************)
(* The run on responses of every shape.                                    *)
(***************************************************************************)
ABC == <<"a","b","c">>

Record(keys, vals) == JDict(keys, vals)

SomeRecords ==
    JList(<< Record(<<COMUNA, MONTO_M>>, <<JStr(ABC), JNum(7)>>),
             Record(<<COMUNA, MONTO_M>>, <<JNull, JNum(5)>>) >>)

NoRecordsValues ==
    { JNull, JStr(<<>>), JStr(ABC), JNum(0), JNum(5), JList(<<>>), JList(<<JNum(1), JNum(2)>>),
      JList(<<JStr(ABC)>>), JList(<<JNull>>), JDict(<<>>, <<>>),
      JDict(<<ABC>>, <<JNum(1)>>), JList(<<JDict(<<>>, <<>>)>>) }

ShapeResponses ==
    {v \in NoRecordsValues : v.k # "dict"}
      \cup {JDict(<<>>, <<>>), JDict(<<<<"success">>>>, <<JNum(0)>>),
            JDict(<<<<"records">>>>, <<SomeRecords>>)}
      \cup {JDict(<<RESULT>>, <<v>>) : v \in NoRecordsValues}
      \cup {JDict(<<<<"success">>, RESULT>>, <<JNum(1), JDict(<<<<"total">>>>, <<JNum(0)>>)>>)}
      \cup {Envelope(v) : v \in NoRecordsValues \cup {SomeRecords}}

NextShapes ==
    Fetch(ShapeResponses) \/ Clean \/ ConsoleReport \/ MakeCharts \/ RunStreamlitUi \/ Exit

SpecShapes == Init /\ [][NextShapes]_vars

\* records_to_df has been called (and returned or raised).
Cleaned == pc \notin {"main", "fetched"}

\* It returned a Table.
ReturnedTable == Cleaned /\ err.at # "records_to_df"

\* The response has the shape {"result": {"records": [record, ...]}}.
WellShaped(d) ==
    /\ d.k = "dict" /\ HasKey(d, RESULT)
    /\ Get(d, RESULT).k = "dict" /\ HasKey(Get(d, RESULT), RECORDS)
    /\ Get(Get(d, RESULT), RECORDS).k = "list"
    /\ \A item \in Range(Get(Get(d, RESULT), RECORDS).items) : item.k = "dict"

RecordsOf(d) == Get(Get(d, RESULT), RECORDS).items

\* C1: for every response that is not of the shape {"result": {"records": [...]}}
\* and for every response with zero records, records_to_df returns an empty
\* Table without raising.
C1_OtherShapesGiveEmptyTable ==
    (Cleaned /\ (~WellShaped(data) \/ RecordsOf(data) = <<>>)) => (ReturnedTable /\ IsEmpty(df))

StageAfter(stage) ==
    CASE stage = "main" -> "fetched"
      [] stage = "fetched" -> "cleaned"
      [] stage = "cleaned" -> "reported"
      [] stage = "reported" -> "charted"
      [] stage = "charted" -> "rendered"
      [] stage = "rendered" -> "exit"
      [] OTHER -> "none"

\* C4: whatever the fetch gave, every stage of the batch run completes and hands
\* over to the next one in the order fetch, clean, report, chart, render, exit;
\* no stage ends the run with an unhandled error.
C4_EveryStageCompletesInOrder == [][pc' = StageAfter(pc)]_vars

(***************************************************************************)
(* The run on one record with one text cell, in a key column or another.   *)
(***************************************************************************)
MaxTextLen == 4

TextChars == {"a", "n", "N", " ", NBSP}

TIPO == <<"t","i","p","o">>

TextResponses ==
    {Envelope(JList(<<Record(<<col>>, <<JStr(s)>>)>>)) :
        col \in {COMUNA, REGION, TIPO}, s \in StringsUpTo(TextChars, MaxTextLen)}
      \cup {Envelope(JList(<<Record(<<col>>, <<v>>), Record(<<col>>, <<JStr(<<"a">>)>>)>>)) :
              col \in {COMUNA, REGION, TIPO}, v \in {JNull, JNum(5), JStr(<<"N","o","n","e">>)}}

NextText ==
    Fetch(TextResponses) \/ Clean \/ ConsoleReport \/ MakeCharts \/ RunStreamlitUi \/ Exit

SpecText == Init /\ [][NextText]_vars

TextCells(f) ==
    {f.rows[i][j] : i \in DOMAIN f.rows, j \in {c \in DOMAIN f.columns : IsTextDtype(f.dtypes[c])}}

\* C2: in the Table records_to_df returns, every cell of every text column, the
\* key columns comuna and region included, is the missing marker or a str that
\* is not empty, has no white space at either end, and is not "none", "null" or
\* "nan" in any casing.
C2_TextCellsAreCleanOrMissing ==
    ReturnedTable =>
        \A v \in TextCells(df) :
            \/ v = NA
            \/ /\ v.k = "str"
               /\ v.s # <<>>
               /\ ~IsSpace(v.s[1]) /\ ~IsSpace(v.s[Len(v.s)])
               /\ Lower(v.s) \notin {<<"n","o","n","e">>, <<"n","u","l","l">>, <<"n","a","n">>}

(***************************************************************************)
(* The run on one record whose field names are drawn from ColumnNames.     *)
(***************************************************************************)
MaxNameLen == 2

NameChars == {"A", "a", " ", "-", "_", "1", "E'"}

ColumnNames == StringsUpTo(NameChars, MaxNameLen)

ColumnResponses ==
    {Envelope(JList(<<Record(<<a>>, <<JStr(ABC)>>)>>)) : a \in ColumnNames}
      \cup {Envelope(JList(<<Record(<<ab[1], ab[2]>>, <<JStr(ABC), JNum(1)>>)>>)) :
              ab \in {p \in ColumnNames \X ColumnNames : p[1] # p[2]}}

NextColumns ==
    Fetch(ColumnResponses) \/ Clean \/ ConsoleReport \/ MakeCharts \/ RunStreamlitUi \/ Exit

SpecColumns == Init /\ [][NextColumns]_vars

\* The response holds at least one record with at least one field.
HasRecords(d) == WellShaped(d) /\ KeysOf(RecordsOf(d)) # <<>>

\* C9: for every set of raw records that is not empty, records_to_df returns a
\* Table whose column names are lowercase, hold only characters of [a-z0-9_]
\* and are pairwise distinct.
C9_ColumnNamesNormalizedAndDistinct ==
    (Cleaned /\ HasRecords(data)) =>
        /\ ReturnedTable
        /\ \A j \in DOMAIN df.columns :
              /\ df.columns[j].k = "str"
              /\ \A c \in Range(df.columns[j].s) :
                    c \in Range(LowerLetters) \cup Range(Digits) \cup {"_"}
        /\ \A i, j \in DOMAIN df.columns : i # j => df.columns[i] # df.columns[j]

(***************************************************************************)
(* The run on records that hold some of mtohombre, mtomujer and monto_m.   *)
(* Row i of a column holds the cell i of a pattern of two cells, repeated. *)
(***************************************************************************)
MaxAmountRows == 2

AmountCells == {JNull, JNum(100), JStr(<<"0", ",", "5">>)}

AmountPatterns == AmountCells \X AmountCells

AmountTable(names, patterns, n) ==
    JList([i \in 1..n |->
             Record(names, [j \in DOMAIN names |-> patterns[j][((i - 1) % 2) + 1]])])

AmountNames ==
    { <<MTOHOMBRE>>, <<MTOMUJER>>, <<MONTO_M>>, <<MTOHOMBRE, MTOMUJER>>,
      <<MTOHOMBRE, MONTO_M>>, <<MTOMUJER, MONTO_M>>, <<MTOHOMBRE, MTOMUJER, MONTO_M>> }

AmountResponses ==
    UNION {{Envelope(AmountTable(names, patterns, n)) :
              patterns \in [DOMAIN names -> AmountPatterns], n \in 1..MaxAmountRows} :
           names \in AmountNames}

NextTotals ==
    Fetch(AmountResponses) \/ Clean \/ ConsoleReport \/ MakeCharts \/ RunStreamlitUi \/ Exit

SpecTotals == Init /\ [][NextTotals]_vars

\* The source supplies the field in its records.
Supplied(name) == HasRecords(data) /\ name \in Range(KeysOf(RecordsOf(data)))

\* The amount a raw value stands for, as <<m, e>>, or "missing".
ExpectedAmount(v) ==
    CASE v.k = "num" -> <<v.n, 0>>
      [] v.k = "str" /\ IsDecimalNumeral(ChileanText(Str(v.s))) -> DecimalValue(ChileanText(Str(v.s)))
      [] OTHER -> "missing"

\* A cell as <<m, e>>, a missing one as 0.
OrZero(v) == IF IsNA(v) THEN <<0, 0>> ELSE <<v.m, v.e>>

Plus(a, b) == <<a[1] * Pow10(b[2]) + b[1] * Pow10(a[2]), a[2] + b[2]>>

\* C5: with no monto_m among the cleaned columns and both mtohombre and mtomujer
\* there, monto_m is added and is, row by row, mtohombre + mtomujer with a missing
\* value counted as 0; a monto_m that the source supplies is kept as it is; with
\* no monto_m and one of the two inputs absent, no monto_m is added.
C5_TotalDerivedOnlyWhenAbsent ==
    (ReturnedTable /\ HasRecords(data)) =>
        /\ (~Supplied(MONTO_M) /\ Supplied(MTOHOMBRE) /\ Supplied(MTOMUJER)) =>
              /\ HasCol(df, MONTO_M)
              /\ \A i \in DOMAIN df.rows :
                    SameNumber(Column(df, MONTO_M)[i],
                               Plus(OrZero(Column(df, MTOHOMBRE)[i]), OrZero(Column(df, MTOMUJER)[i])))
        /\ Supplied(MONTO_M) =>
              /\ HasCol(df, MONTO_M)
              /\ \A i \in DOMAIN df.rows :
                    LET want == ExpectedAmount(Get(RecordsOf(data)[i], MONTO_M))
                        cell == Column(df, MONTO_M)[i]
                    IN  IF want = "missing" THEN IsNA(cell) ELSE SameNumber(cell, want)
        /\ (~Supplied(MONTO_M) /\ ~(Supplied(MTOHOMBRE) /\ Supplied(MTOMUJER))) =>
              ~HasCol(df, MONTO_M)

\* men = 100 and women missing, no monto_m supplied: the derived total is 100.
C5_Witness ==
    /\ ReturnedTable /\ ~Supplied(MONTO_M) /\ HasCol(df, MONTO_M)
    /\ \E i \in DOMAIN df.rows :
          /\ Column(df, MTOHOMBRE)[i] = Num(100)
          /\ IsNA(Column(df, MTOMUJER)[i])
          /\ Column(df, MONTO_M)[i] = Num(100)

(***************************************************************************)
(* The run on tables of up to MaxRankRows rows: a commune (every fourth    *)
(* one missing when holes), a region, and an amount that grows with the    *)
(* row, given as monto_m or split into mtohombre and mtomujer (missing in  *)
(* every third row).                                                       *)
(***************************************************************************)
MaxRankRows == 22

CommuneName(i) == <<"c">> \o NatToStr(i)

\* The amount of row i of n; with tie = t > 0 the amounts ranked t and t + 1 are equal.
RankAmount(i, n, tie) == IF tie > 0 /\ i = n - tie THEN i + 1 ELSE i

RankRecord(i, n, grouped, holes, tie, split) ==
    LET comuna == IF holes /\ i % 4 = 0 THEN JNull
                  ELSE JStr(CommuneName(IF grouped THEN ((i - 1) % 3) + 1 ELSE i))
        region == JStr(IF i % 2 = 0 THEN <<"5">> ELSE <<"1", "3">>)
        amount == 3 * RankAmount(i, n, tie)
    IN  IF split
        THEN Record(<<COMUNA, REGION, MTOHOMBRE, MTOMUJER>>,
                    IF i % 3 = 0 THEN <<comuna, region, JNum(amount), JNull>>
                    ELSE <<comuna, region, JNum(amount - 1), JNum(1)>>)
        ELSE Record(<<COMUNA, REGION, MONTO_M>>, <<comuna, region, JNum(amount)>>)

\* The numbers of rows: MaxRankRows and every third number below it.
RankSizes == {n \in 1..MaxRankRows : (MaxRankRows - n) % 3 = 0}

RankResponses ==
    {Envelope(JList([i \in 1..n |-> RankRecord(i, n, grouped, holes, tie, split)])) :
        n \in RankSizes, grouped \in BOOLEAN, holes \in BOOLEAN,
        tie \in {0, TopReport, TopUi}, split \in BOOLEAN}

NextRanking ==
    Fetch(RankResponses) \/ Clean \/ ConsoleReport \/ MakeCharts \/ RunStreamlitUi \/ Exit

SpecRanking == Init /\ [][NextRanking]_vars

\* console_report has just returned, for a Table that is not empty.
Reported == pc = "reported" /\ ~IsEmpty(df)

\* make_charts has just returned, for a Table that is not empty.
Charted == pc = "charted" /\ ~IsEmpty(df)

\* run_streamlit_ui has just returned or raised, after showing the table.
Viewed == pc \in {"rendered", "crashed"} /\ "dataframe" \in Range(ui.widgets)

\* The sum of a column over the rows that keep selects, missing cells as 0, as <<m, e>>.
RECURSIVE SumWhere(_, _, _, _)
SumWhere(f, name, keep(_), i) ==
    IF i = 0 THEN <<0, 0>>
    ELSE LET rest == SumWhere(f, name, keep, i - 1)
         IN  IF keep(f.rows[i]) THEN Plus(rest, OrZero(Column(f, name)[i])) ELSE rest

SumAll(f, name) ==
    IF HasCol(f, name) THEN SumWhere(f, name, LAMBDA row : TRUE, Len(f.rows)) ELSE <<0, 0>>

Communes(f) == {v.s : v \in {c \in Range(Column(f, COMUNA)) : c.k = "str"}}

CommuneTotal(f, key) ==
    SumWhere(f, MONTO_M, LAMBDA row : row[ColIndex(f, COMUNA)] = Str(key), Len(f.rows))

\* The three sums are over every row of f, the rows with a missing commune included.
SumsCountEveryRow(t, f) ==
    /\ SameNumber(t.th, SumAll(f, MTOHOMBRE))
    /\ SameNumber(t.tm, SumAll(f, MTOMUJER))
    /\ SameNumber(t.tg, IF HasCol(f, MONTO_M) THEN SumAll(f, MONTO_M)
                        ELSE Plus(SumAll(f, MTOHOMBRE), SumAll(f, MTOMUJER)))

\* Every entry is a commune of f with the sum of that commune's rows alone.
EntriesAreCommunes(ranking, f) ==
    \A e \in Range(ranking) :
        e.key \in Communes(f) /\ SameNumber(e.total, CommuneTotal(f, e.key))

\* C6: a row without commune counts in the three scalar sums, but no entry of
\* the by-commune ranking holds its amount and no entry has a missing key; in
\* the console report, in both charts and in the view.
C6_MissingCommuneOnlyInSums ==
    /\ Reported => (SumsCountEveryRow(report.totals, df) /\ EntriesAreCommunes(report.top10, df))
    /\ Charted => (EntriesAreCommunes(charts.bar, df) /\ EntriesAreCommunes(charts.lines, df))
    /\ Viewed =>
          /\ ui.metrics = <<FormatThousands(Norm(SumAll(ui.work, MTOHOMBRE)[1], 0), "."),
                            FormatThousands(Norm(SumAll(ui.work, MTOMUJER)[1], 0), "."),
                            FormatThousands(Norm((IF HasCol(ui.work, MONTO_M)
                                                  THEN SumAll(ui.work, MONTO_M)
                                                  ELSE Plus(SumAll(ui.work, MTOHOMBRE),
                                                            SumAll(ui.work, MTOMUJER)))[1], 0), ".")>>
          /\ EntriesAreCommunes(ui.top20, ui.work)

\* A table with an amount in a row without commune has gone through the report,
\* the charts and the view, each with a ranking.
C6_Witness ==
    /\ pc = "rendered" /\ Viewed
    /\ \E i \in DOMAIN df.rows :
          IsNA(Column(df, COMUNA)[i]) /\ Column(df, MONTO_M)[i].m > 0
    /\ \E i \in DOMAIN ui.work.rows : IsNA(Column(ui.work, COMUNA)[i])
    /\ report.top10 # <<>> /\ charts.bar # <<>> /\ charts.lines # <<>> /\ ui.top20 # <<>>

LeqPair(a, b) == a[1] * Pow10(b[2]) <= b[1] * Pow10(a[2])

Min(a, b) == IF a < b THEN a ELSE b

\* ranking is a top-n by-commune ranking of f.
IsTopN(ranking, f, n) ==
    LET kept == {ranking[i].key : i \in DOMAIN ranking}
        total == [c \in Communes(f) |-> CommuneTotal(f, c)]
        distinct == \A a, b \in Communes(f) :
                      a # b => ~(LeqPair(total[a], total[b]) /\ LeqPair(total[b], total[a]))
    IN  /\ Len(ranking) = Min(Cardinality(Communes(f)), n)
        /\ \A i, j \in DOMAIN ranking :
              i < j => /\ Leq(ranking[j].total, ranking[i].total)
                       /\ distinct => ~Leq(ranking[i].total, ranking[j].total)
        /\ \A c \in Communes(f) \ kept :
              \A i \in DOMAIN ranking :
                  LeqPair(total[c], <<ranking[i].total.m, ranking[i].total.e>>)

MaxRegionRows == 2

RegionCells == {JStr(<<"5">>), JStr(<<"1", "3">>), JStr(<<"9", "9">>), JNull, JNum(5)}

RegionRecord(i, region, withComuna, withMonto) ==
    Record(<<TIPO>> \o (IF region = <<>> THEN <<>> ELSE <<REGION>>)
             \o (IF withComuna THEN <<COMUNA>> ELSE <<>>)
             \o (IF withMonto THEN <<MONTO_M>> ELSE <<>>),
           <<JStr(ABC)>> \o region
             \o (IF withComuna THEN <<JStr(CommuneName(i))>> ELSE <<>>)
             \o (IF withMonto THEN <<JNum(i)>> ELSE <<>>))

RegionResponses ==
    UNION {{Envelope(JList([i \in 1..n |->
                              RegionRecord(i, IF regions = <<>> THEN <<>> ELSE <<regions[i]>>,
                                           withComuna, withMonto)])) :
              regions \in [1..n -> RegionCells] \cup {<<>>},
              withComuna \in BOOLEAN, withMonto \in BOOLEAN} : n \in 1..MaxRegionRows}

NextRegions ==
    Fetch(RegionResponses) \/ Clean \/ ConsoleReport \/ MakeCharts \/ RunStreamlitUi \/ Exit

SpecRegions == Init /\ [][NextRegions]_vars

\* The region codes present in the Table.
CodesPresent(f) == {v.s : v \in {c \in Range(Column(f, REGION)) : c.k = "str"}}

\* The rows of f whose region code is c.
RowsOfRegion(f, c) == SelectSeq(f.rows, LAMBDA row : row[ColIndex(f, REGION)] = Str(c))

\* C3: every region code c of the Table, mapped or not, has its option in the
\* selector, and with that option selected the view works on exactly the rows
\* whose region code is c; with "(todas)" selected it works on the whole Table.
C3_RegionFilterSelectsItsRows ==
    (Viewed /\ HasCol(df, REGION)) =>
        /\ ui.pick = TODAS => ui.work = df
        /\ \A c \in CodesPresent(df) :
              /\ RegionName(c) \in Range(ui.opciones)
              /\ ui.pick = RegionName(c) => ui.work.rows = RowsOfRegion(df, c)

\* run_streamlit_ui ran with streamlit there, on a Table that is not empty.
Rendered == pc \in {"rendered", "crashed"} /\ "title" \in Range(ui.widgets) /\ ~IsEmpty(df)

\* C10: on a Table without region column the view skips the region filter only:
\* it gives the message, shows the whole table and the three metrics and, with
\* comuna and monto_m there, the top-20 ranking under its title, and it returns
\* without raising.
C10_NoRegionSkipsOnlyTheFilter ==
    (Rendered /\ ~HasCol(df, REGION)) =>
        /\ err.at # "run_streamlit_ui"
        /\ "info" \in Range(ui.widgets) /\ "selectbox" \notin Range(ui.widgets)
        /\ "dataframe" \in Range(ui.widgets) /\ ui.work = df
        /\ Len(ui.metrics) = 3
        /\ HasRanking(df) => ("bar_chart" \in Range(ui.widgets) /\ ui.titulo # <<>>)

(***************************************************************************)
(* to_float_cl on its own: one call on a value drawn from FloatInputs.     *)
(***************************************************************************)
MaxCellLen == 4

CellChars == {"1", "5", ".", ",", "-", " ", "i", "n", "f"}

ExampleTexts ==
    { <<"1",".","2","3","4",",","5","6">>, <<"0",",","5">>, <<"n","u","l","l">>,
      <<"n","o","n","e">>, <<"n","a","n">>, <<"N","U","L","L">>, <<"N","a","N">>, <<"1","0","0">> }

FloatInputs ==
    {NA, PyNone, NaN} \cup {Num(n) : n \in {0, 7, 15}}
      \cup {Str(s) : s \in StringsUpTo(CellChars, MaxCellLen) \cup ExampleTexts}

InitToFloat ==
    /\ pc = "call"
    /\ x \in FloatInputs
    /\ ret = NA
    /\ data = JNull /\ df = EmptyFrame /\ report = NoReport /\ charts = NoCharts /\ ui = NoUi
    /\ stdout = <<>>
    /\ err = NoError

\* ret = to_float_cl(x)
ToFloatCl ==
    /\ pc = "call"
    /\ ret' = to_float_cl(x)
    /\ pc' = "returned"
    /\ UNCHANGED <<data, df, stdout, report, charts, ui, err, x>>

NextToFloat == ToFloatCl

SpecToFloat == InitToFloat /\ [][NextToFloat]_vars

\* C8: to_float_cl returns the missing marker or the number read from the text
\* after dropping "." and turning "," into "."; a missing input, "", "-", "null"
\* and every text that is no number after the substitution give missing;
\* "1.234,56" gives 1234.56 and "0,5" gives 0.5.
C8_ToFloatReadsChileanNumber ==
    pc = "returned" =>
        /\ IsNA(ret) \/ (IsDecimalNumeral(ChileanText(x)) /\ SameNumber(ret, DecimalValue(ChileanText(x))))
        /\ (IsNA(x) \/ Strip(PyStr(x)) \in {<<>>, <<"-">>, <<"n","u","l","l">>}
              \/ ~IsDecimalNumeral(ChileanText(x))) => IsNA(ret)
        /\ x = Str(<<"1",".","2","3","4",",","5","6">>) => SameNumber(ret, <<123456, 2>>)
        /\ x = Str(<<"0",",","5">>) => SameNumber(ret, <<5, 1>>)

====
